---- MODULE Spec2Model ----
(***************************************************************************)
(* A model of ethers-contract-abigen/src/util.rs:                          *)
(*   - ETHERS_CRATES / determine_ethers_crates and its three accessors     *)
(*     (a once_cell Lazy guarding the `cargo metadata` query and the       *)
(*     Cargo.lock cleanup),                                                *)
(*   - safe_ident / expand_input_name,                                     *)
(*   - preserve_underscore_delim,                                          *)
(*   - parse_address.                                                      *)
(* Strings are sequences of one-character strings.  Option values are      *)
(* sequences of length 0 (None) or 1 (Some).                               *)
(***************************************************************************)
EXTENDS Integers, Sequences, FiniteSets, TLC

VARIABLES
    \* ---- the host project and the file system (environment of resolve)
    envSet,          \* CARGO_MANIFEST_DIR is set in the process environment
    project,         \* what `cargo metadata` answers for the manifest
    lockFile,        \* content of <manifest_dir>/Cargo.lock, or "absent"
    lockBefore,      \* history: lockFile when the process started
    \* ---- the Lazy cell ETHERS_CRATES
    lazy,            \* "uninit" | "running" | "init" | "poisoned"
    cell,            \* Option of the cached triple
    cellWrites,      \* history: how many times the cell has been written
    \* ---- the threads calling the accessors
    pc,              \* position of each thread
    acc,             \* the accessor the thread is in (0, 1, 2), -1 in none
    budget,          \* accessor calls the thread will still make
    out,             \* Option: the Path the thread's last call returned
    obs,             \* history: every value of ETHERS_CRATES a call has read
    waited,          \* history: the thread has waited for the initialiser
    \* ---- locals of determine_ethers_crates
    needs_lock_file_cleanup,
    res,
    \* ---- history counters of the one-time computation
    queryCount,      \* executions of MetadataCommand::exec
    cleanupCount,    \* executions of the cleanup step (lines 75-79)
    removeCalls,     \* calls of std::fs::remove_file
    removeFailed,    \* a remove_file call returned Err on an existing file
    created,         \* the query wrote a Cargo.lock where none was
    \* ---- the pure functions' harness
    fnPc,            \* "in" before the function is applied, "out" after,
                     \* "off" when the resolver is what runs
    fnIn,            \* the arguments
    fnOut            \* the result

resolverVars == <<envSet, project, lockFile, lockBefore, lazy, cell,
                  cellWrites, pc, acc, budget, out, obs, waited,
                  needs_lock_file_cleanup, res, queryCount, cleanupCount,
                  removeCalls, removeFailed, created>>
fnVars == <<fnPc, fnIn, fnOut>>
vars == <<resolverVars, fnVars>>

(***************************************************************************)
(* Bounds.                                                                 *)
(***************************************************************************)
NumThreads == 2
MaxCalls == 2
MaxDeps == 2

Threads == 1..NumThreads

None == <<>>
Some(v) == <<v>>
IsSome(o) == Len(o) = 1
Unwrap(o) == o[1]

SeqsUpTo(S, n) == UNION {[1..k -> S] : k \in 0..n}

(***************************************************************************)
(* determine_ethers_crates: the two branches and the dependency lookup.    *)
(* A path is the sequence of its `::`-separated segments.                  *)
(***************************************************************************)
UmbrellaCrates == << <<"ethers", "core">>, <<"ethers", "contract">>,
                     <<"ethers", "providers">> >>
StandaloneCrates == << <<"ethers_core">>, <<"ethers_contract">>,
                       <<"ethers_providers">> >>

DependencyKind == {"normal", "dev", "build"}
DepNames == {"ethers", "ethers-core"}
Dependency == [name : DepNames, kind : DependencyKind]

\* The answers of MetadataCommand::exec: Err (the tool cannot be run, cargo
\* reports a failure such as a missing manifest, its output does not parse)
\* or a Metadata with an optional root package and that package's
\* dependencies.
QueryErrors == {"io", "cargo", "json"}
Projects ==
    [ok : {FALSE}, err : QueryErrors, root : {FALSE}, deps : {<<>>}]
    \cup [ok : {TRUE}, err : {"none"}, root : BOOLEAN,
          deps : SeqsUpTo(Dependency, MaxDeps)]

\* .iter().filter(|dep| dep.kind == DependencyKind::Normal)
FilterNormalAll(deps) == deps
RECURSIVE FilterNormal(_)
FilterNormal(deps) ==
    IF deps = <<>> THEN <<>>
    ELSE IF Head(deps).kind = "normal"
         THEN <<Head(deps)>> \o FilterNormal(Tail(deps))
         ELSE FilterNormal(Tail(deps))

\* .find_map(|dep| (dep.name == "ethers").then(|| umbrella))
RECURSIVE FindEthers(_)
FindEthers(deps) ==
    IF deps = <<>> THEN None
    ELSE IF Head(deps).name = "ethers" THEN Some(UmbrellaCrates)
         ELSE FindEthers(Tail(deps))

\* metadata.root_package().and_then(|pkg| ...)
RootPackageDeps(p) == IF p.root THEN Some(p.deps) ELSE None

\* The two triples exchanged.
QueryResultSwapped(p) ==
    LET found == IF ~p.ok THEN None
                 ELSE IF ~IsSome(RootPackageDeps(p)) THEN None
                 ELSE FindEthers(FilterNormal(Unwrap(RootPackageDeps(p))))
    IN  IF IsSome(found) THEN StandaloneCrates ELSE UmbrellaCrates

\* .exec().ok().and_then(...).unwrap_or(standalone)
QueryResult(p) ==
    LET found == IF ~p.ok THEN None
                 ELSE IF ~IsSome(RootPackageDeps(p)) THEN None
                 ELSE FindEthers(FilterNormal(Unwrap(RootPackageDeps(p))))
    IN  IF IsSome(found) THEN Unwrap(found) ELSE StandaloneCrates

\* What the query may leave at <manifest_dir>/Cargo.lock: cargo writes the
\* file when it ran and none was there; an existing file stays as it is.
QueryLockOutcomes(p, lock) ==
    IF lock = "absent" /\ (p.ok \/ p.err = "json")
    THEN {"absent", "generated"}
    ELSE {lock}

(***************************************************************************)
(* The accessors and Lazy::force.                                          *)
(***************************************************************************)
Accessors == {0, 1, 2}

\* A thread calls ethers_core_crate (0), ethers_contract_crate (1) or
\* ethers_providers_crate (2).
Call(t, a) ==
    /\ pc[t] = "idle"
    /\ budget[t] > 0
    /\ pc' = [pc EXCEPT ![t] = "force"]
    /\ acc' = [acc EXCEPT ![t] = a]
    /\ budget' = [budget EXCEPT ![t] = @ - 1]
    /\ UNCHANGED <<envSet, project, lockFile, lockBefore, lazy, cell, out,
                   obs, needs_lock_file_cleanup, res, queryCount,
                   cleanupCount, removeCalls, removeFailed, created, waited,
                   cellWrites, fnVars>>

\* The accessor reads its component of the cell, parses it
\* (syn::parse_str(ETHERS_CRATES.<a>).expect("valid path; qed")) and returns
\* the path.
ReadAndReturn(t) ==
    /\ obs' = obs \cup {cell}
    /\ out' = [out EXCEPT ![t] = IF IsSome(cell)
                                 THEN Some(Unwrap(cell)[acc[t] + 1])
                                 ELSE None]
    /\ acc' = [acc EXCEPT ![t] = -1]
    /\ pc' = [pc EXCEPT ![t] = "idle"]

\* Force without the running state: a thread that finds the initialiser
\* running runs it too.
ForceRacy(t) ==
    /\ pc[t] \in {"force", "wait"}
    /\ \/ /\ lazy = "init"
          /\ ReadAndReturn(t)
          /\ UNCHANGED <<lazy, waited>>
       \/ /\ lazy \in {"uninit", "running"}
          /\ lazy' = "running"
          /\ pc' = [pc EXCEPT ![t] = "env"]
          /\ UNCHANGED <<acc, out, obs, waited>>
       \/ /\ lazy = "poisoned"
          /\ pc' = [pc EXCEPT ![t] = "panicked"]
          /\ UNCHANGED <<acc, out, obs, lazy, waited>>
    /\ UNCHANGED <<envSet, project, lockFile, lockBefore, cell, budget,
                   needs_lock_file_cleanup, res, queryCount, cleanupCount,
                   removeCalls, removeFailed, created, cellWrites, fnVars>>

\* Force without the wait: a thread that finds the initialiser running reads
\* the cell as it is.
ForceNoWait(t) ==
    /\ pc[t] \in {"force", "wait"}
    /\ \/ /\ lazy \in {"init", "running"}
          /\ ReadAndReturn(t)
          /\ waited' = [waited EXCEPT ![t] = @ \/ lazy = "running"]
          /\ UNCHANGED lazy
       \/ /\ lazy = "uninit"
          /\ lazy' = "running"
          /\ pc' = [pc EXCEPT ![t] = "env"]
          /\ UNCHANGED <<acc, out, obs, waited>>
       \/ /\ lazy = "poisoned"
          /\ pc' = [pc EXCEPT ![t] = "panicked"]
          /\ UNCHANGED <<acc, out, obs, lazy, waited>>
    /\ UNCHANGED <<envSet, project, lockFile, lockBefore, cell, budget,
                   needs_lock_file_cleanup, res, queryCount, cleanupCount,
                   removeCalls, removeFailed, created, cellWrites, fnVars>>

\* The dereference of ETHERS_CRATES (Lazy::force).  An initialised cell is
\* read; the first thread to find it empty runs the initialiser; a thread
\* that finds the initialiser running waits until it is over; after a panic
\* of the initialiser the cell is poisoned and every dereference panics.
Force(t) ==
    /\ pc[t] \in {"force", "wait"}
    /\ \/ /\ lazy = "init"
          /\ ReadAndReturn(t)
          /\ UNCHANGED <<lazy, waited>>
       \/ /\ lazy = "uninit"
          /\ lazy' = "running"
          /\ pc' = [pc EXCEPT ![t] = "env"]
          /\ UNCHANGED <<acc, out, obs, waited>>
       \/ /\ lazy = "running"
          /\ pc[t] = "force"
          /\ pc' = [pc EXCEPT ![t] = "wait"]
          /\ waited' = [waited EXCEPT ![t] = TRUE]
          /\ UNCHANGED <<acc, out, obs, lazy>>
       \/ /\ lazy = "poisoned"
          /\ pc' = [pc EXCEPT ![t] = "panicked"]
          /\ UNCHANGED <<acc, out, obs, lazy, waited>>
    /\ UNCHANGED <<envSet, project, lockFile, lockBefore, cell, budget,
                   needs_lock_file_cleanup, res, queryCount, cleanupCount,
                   removeCalls, removeFailed, created, cellWrites, fnVars>>

\* std::env::var("CARGO_MANIFEST_DIR").expect("No Manifest found")
EnvVar(t) ==
    /\ pc[t] = "env"
    /\ IF envSet
       THEN /\ pc' = [pc EXCEPT ![t] = "exists"]
            /\ UNCHANGED lazy
       ELSE /\ pc' = [pc EXCEPT ![t] = "panicked"]
            /\ lazy' = "poisoned"
    /\ UNCHANGED <<envSet, project, lockFile, lockBefore, cell, acc, budget,
                   out, obs, needs_lock_file_cleanup, res, queryCount,
                   cleanupCount, removeCalls, removeFailed, created, waited,
                   cellWrites, fnVars>>

\* let needs_lock_file_cleanup = !Path::new(&lock_file).exists();
NeedsCleanupAlways(lock) == TRUE
NeedsCleanupNever(lock) == FALSE
NeedsCleanup(lock) == lock = "absent"

ExistsCheck(t) ==
    /\ pc[t] = "exists"
    /\ needs_lock_file_cleanup' = NeedsCleanup(lockFile)
    /\ pc' = [pc EXCEPT ![t] = "query"]
    /\ UNCHANGED <<envSet, project, lockFile, lockBefore, lazy, cell, acc,
                   budget, out, obs, res, queryCount, cleanupCount,
                   removeCalls, removeFailed, created, waited, cellWrites,
                   fnVars>>

\* let res = MetadataCommand::new().manifest_path(..).exec()...unwrap_or(..)
Query(t) ==
    /\ pc[t] = "query"
    /\ res' = QueryResult(project)
    /\ lockFile' \in QueryLockOutcomes(project, lockFile)
    /\ created' = (created \/ (lockFile = "absent" /\ lockFile' # "absent"))
    /\ queryCount' = queryCount + 1
    /\ pc' = [pc EXCEPT ![t] = "cleanup"]
    /\ UNCHANGED <<envSet, project, lockBefore, lazy, cell, acc, budget, out,
                   obs, needs_lock_file_cleanup, cleanupCount, removeCalls,
                   removeFailed, waited, cellWrites, fnVars>>

\* std::fs::remove_file(lock_file): Ok and the file is gone, or Err and the
\* file system is as it was (the file is missing, or cannot be removed).
RemoveFileOutcomes(lock) ==
    IF lock = "absent" THEN {[lock |-> "absent", failed |-> FALSE]}
    ELSE {[lock |-> "absent", failed |-> FALSE],
          [lock |-> lock, failed |-> TRUE]}

\* if needs_lock_file_cleanup { let _ = std::fs::remove_file(lock_file); }
Cleanup(t) ==
    /\ pc[t] = "cleanup"
    /\ IF needs_lock_file_cleanup
       THEN \E o \in RemoveFileOutcomes(lockFile) :
               /\ lockFile' = o.lock
               /\ removeFailed' = (removeFailed \/ o.failed)
               /\ removeCalls' = removeCalls + 1
       ELSE UNCHANGED <<lockFile, removeFailed, removeCalls>>
    /\ cleanupCount' = cleanupCount + 1
    /\ pc' = [pc EXCEPT ![t] = "ret"]
    /\ UNCHANGED <<envSet, project, lockBefore, lazy, cell, acc, budget, out,
                   obs, needs_lock_file_cleanup, res, queryCount, created,
                   waited, cellWrites, fnVars>>

\* determine_ethers_crates returns res and Lazy stores it in the cell; the
\* thread goes on to read the cell like any other.
Return(t) ==
    /\ pc[t] = "ret"
    /\ cell' = Some(res)
    /\ cellWrites' = cellWrites + 1
    /\ lazy' = "init"
    /\ pc' = [pc EXCEPT ![t] = "force"]
    /\ UNCHANGED <<envSet, project, lockFile, lockBefore, acc, budget, out,
                   obs, needs_lock_file_cleanup, res, queryCount,
                   cleanupCount, removeCalls, removeFailed, created, waited,
                   fnVars>>

FnIdle == fnPc = "off" /\ fnIn = <<>> /\ fnOut = <<>>

InitResolverCommon ==
    /\ envSet \in BOOLEAN
    /\ lockFile \in {"absent", "user"}
    /\ lockBefore = lockFile
    /\ lazy = "uninit"
    /\ cell = None
    /\ cellWrites = 0
    /\ pc = [t \in Threads |-> "idle"]
    /\ acc = [t \in Threads |-> -1]
    /\ out = [t \in Threads |-> None]
    /\ obs = {}
    /\ needs_lock_file_cleanup = FALSE
    /\ res = StandaloneCrates
    /\ queryCount = 0
    /\ cleanupCount = 0
    /\ removeCalls = 0
    /\ removeFailed = FALSE
    /\ created = FALSE
    /\ waited = [t \in Threads |-> FALSE]
    /\ FnIdle

\* One thread calls the accessors, over every project.
InitResolve ==
    /\ InitResolverCommon
    /\ project \in Projects
    /\ budget = [t \in Threads |-> IF t = 1 THEN MaxCalls ELSE 0]

\* Every thread calls the accessors, over a failing query and a project with
\* the umbrella dependency.
LazyProjects ==
    {p \in Projects :
        \/ ~p.ok /\ p.err = "json"
        \/ p.ok /\ p.root
             /\ p.deps = <<[name |-> "ethers", kind |-> "normal"]>>}
InitLazy ==
    /\ InitResolverCommon
    /\ project \in LazyProjects
    /\ budget = [t \in Threads |-> MaxCalls]

NextResolver ==
    \E t \in Threads :
        \/ \E a \in Accessors : Call(t, a)
        \/ Force(t)
        \/ EnvVar(t)
        \/ ExistsCheck(t)
        \/ Query(t)
        \/ Cleanup(t)
        \/ Return(t)

SpecResolve == InitResolve /\ [][NextResolver]_vars
SpecLazy == InitLazy /\ [][NextResolver]_vars

(***************************************************************************)
(* The pure functions are applied once to arguments drawn in Init.  While  *)
(* they run the resolver is idle, and the other way round.                 *)
(***************************************************************************)
ResolverIdle ==
    /\ envSet = TRUE
    /\ project = [ok |-> FALSE, err |-> "io", root |-> FALSE, deps |-> <<>>]
    /\ lockFile = "absent"
    /\ lockBefore = "absent"
    /\ lazy = "uninit"
    /\ cell = None
    /\ cellWrites = 0
    /\ pc = [t \in Threads |-> "idle"]
    /\ acc = [t \in Threads |-> -1]
    /\ budget = [t \in Threads |-> 0]
    /\ out = [t \in Threads |-> None]
    /\ obs = {}
    /\ needs_lock_file_cleanup = FALSE
    /\ res = StandaloneCrates
    /\ queryCount = 0
    /\ cleanupCount = 0
    /\ removeCalls = 0
    /\ removeFailed = FALSE
    /\ created = FALSE
    /\ waited = [t \in Threads |-> FALSE]

\* A call either returns a value or panics.
Returned(v) == [ok |-> TRUE, val |-> v]
Panicked == [ok |-> FALSE, val |-> <<>>]

RECURSIVE Reverse(_)
Reverse(s) == IF s = <<>> THEN <<>> ELSE Reverse(Tail(s)) \o <<Head(s)>>

(***************************************************************************)
(* Characters.                                                             *)
(***************************************************************************)
LowerSeq == <<"a", "c", "e", "f", "i", "l", "m", "n", "p", "s">>
UpperSeq == <<"A", "C", "E", "F", "I", "L", "M", "N", "P", "S">>
LowerChars == {LowerSeq[i] : i \in DOMAIN LowerSeq}
UpperChars == {UpperSeq[i] : i \in DOMAIN UpperSeq}
Digits == <<"0", "1", "2", "3", "4", "5", "6", "7", "8", "9">>
DigitChars == {Digits[i] : i \in DOMAIN Digits}

\* char::to_ascii_lowercase
ToAsciiLowercase(c) ==
    IF c \in UpperChars
    THEN LowerSeq[CHOOSE i \in DOMAIN UpperSeq : UpperSeq[i] = c]
    ELSE c
\* char::to_ascii_uppercase
ToAsciiUppercase(c) ==
    IF c \in LowerChars
    THEN UpperSeq[CHOOSE i \in DOMAIN LowerSeq : LowerSeq[i] = c]
    ELSE c
\* char::is_alphanumeric, char::is_lowercase
IsAlphanumeric(c) == c \in LowerChars \cup UpperChars \cup DigitChars
IsLowercase(c) == c \in LowerChars

(***************************************************************************)
(* Inflector's to_snake_case, which expand_input_name calls on a name.     *)
(***************************************************************************)
\* trim_right: trim_end_matches(|c| !c.is_alphanumeric())
RECURSIVE TrimRight(_)
TrimRight(s) ==
    IF s = <<>> THEN <<>>
    ELSE IF IsAlphanumeric(s[Len(s)]) THEN s
         ELSE TrimRight(SubSeq(s, 1, Len(s) - 1))

\* char_is_uppercase: c == c.to_ascii_uppercase() (true of a digit too)
CharIsUppercase(c) == c = ToAsciiUppercase(c)

\* chars().nth(i).unwrap_or('A'), for a 0-based i
NthOrA(s, i) == IF i >= 0 /\ i < Len(s) THEN s[i + 1] ELSE "A"

\* next_or_previous_char_is_lowercase, at the 0-based index i
NextOrPreviousCharIsLowercase(s, i) ==
    IsLowercase(NthOrA(s, i + 1)) \/ IsLowercase(NthOrA(s, i - 1))

\* requires_seperator
RequiresSeparator(s, i, first_character) ==
    /\ ~first_character
    /\ CharIsUppercase(s[i + 1])
    /\ NextOrPreviousCharIsLowercase(s, i)

\* The loop of to_case_snake_like over the trimmed string, from the 0-based
\* index i on; s is the untrimmed string, n the length of the trimmed one.
RECURSIVE SnakeLoop(_, _, _, _, _)
SnakeLoop(s, n, i, first_character, result) ==
    IF i >= n THEN result
    ELSE LET c == s[i + 1] IN
         IF ~IsAlphanumeric(c)
         THEN IF ~first_character
              THEN SnakeLoop(s, n, i + 1, TRUE, result \o <<"_">>)
              ELSE SnakeLoop(s, n, i + 1, first_character, result)
         ELSE IF RequiresSeparator(s, i, first_character)
              THEN SnakeLoop(s, n, i + 1, FALSE,
                             result \o <<"_", ToAsciiLowercase(c)>>)
              ELSE SnakeLoop(s, n, i + 1, FALSE,
                             result \o <<ToAsciiLowercase(c)>>)

ToSnakeCase(s) == SnakeLoop(s, Len(TrimRight(s)), 0, TRUE, <<>>)

(***************************************************************************)
(* Identifiers: syn::parse_str::<Ident> and proc_macro2's Ident::new.      *)
(***************************************************************************)
IsIdentStart(c) == c = "_" \/ c \in LowerChars \cup UpperChars
IsIdentContinue(c) == c = "_" \/ IsAlphanumeric(c)
\* The lexical shape of an identifier.
IdentOk(s) ==
    /\ s # <<>>
    /\ IsIdentStart(s[1])
    /\ \A i \in 2..Len(s) : IsIdentContinue(s[i])

\* The reserved words syn refuses as an Ident that the alphabet can spell.
Keywords == { <<"a", "s">>, <<"f", "n">>, <<"i", "f">>, <<"i", "n">>,
              <<"s", "e", "l", "f">>, <<"S", "e", "l", "f">> }

\* syn::parse_str::<SynIdent>(name): Some(ident) or None for a parse error.
\* The underscore alone and the keywords are no Ident.
ParseSynIdent(name) ==
    IF IdentOk(name) /\ name # <<"_">> /\ name \notin Keywords
    THEN Some(name) ELSE None

\* ident(name) = Ident::new(name, Span::call_site()), which panics on a
\* string that has not the shape of an identifier.
ident(name) == IF IdentOk(name) THEN Returned(name) ELSE Panicked

\* safe_ident: parse_str(name).unwrap_or_else(|_| ident(&format!("{}_", name)))
safe_ident(name) ==
    IF IsSome(ParseSynIdent(name))
    THEN Returned(Unwrap(ParseSynIdent(name)))
    ELSE ident(name \o <<"_">>)

\* The decimal digits of index, as format!("{}", index) writes them.
RECURSIVE ToDecimal(_)
ToDecimal(n) ==
    IF n < 10 THEN <<Digits[n + 1]>>
    ELSE ToDecimal(n \div 10) \o <<Digits[(n % 10) + 1]>>

\* expand_input_name(index, name)
expand_input_name(index, name) ==
    LET name_str == IF name = <<>> THEN <<"p">> \o ToDecimal(index)
                    ELSE ToSnakeCase(name)
    IN  safe_ident(name_str)

MaxNameLen == 3
MaxIndex == 10
NameAlphabet == {"a", "s", "A", "1", "_"}

InitIdent ==
    /\ ResolverIdle
    /\ fnPc = "in"
    /\ fnIn \in [name : SeqsUpTo(NameAlphabet, MaxNameLen), index : 0..MaxIndex]
    /\ fnOut = Panicked

ApplyExpandInputName ==
    /\ fnPc = "in"
    /\ fnOut' = expand_input_name(fnIn.index, fnIn.name)
    /\ fnPc' = "out"
    /\ UNCHANGED <<fnIn, resolverVars>>

SpecIdent == InitIdent /\ [][ApplyExpandInputName]_vars

(***************************************************************************)
(* preserve_underscore_delim                                               *)
(***************************************************************************)
\* .take_while(|c| *c == '_')
RECURSIVE TakeWhileUnderscore(_)
TakeWhileUnderscore(s) ==
    IF s = <<>> \/ Head(s) # "_" THEN <<>>
    ELSE <<"_">> \o TakeWhileUnderscore(Tail(s))

\* alias.chars().rev().take_while(|c| *c == '_')
TrailingNoRev(alias) == TakeWhileUnderscore(alias)
TrailingUnderscores(alias) == TakeWhileUnderscore(Reverse(alias))

preserve_underscore_delim(id, alias) ==
    TakeWhileUnderscore(alias) \o id \o TrailingUnderscores(alias)

MaxFenceLen == 3
FenceAlphabet == {"_", "a", "S"}

InitFence ==
    /\ ResolverIdle
    /\ fnPc = "in"
    /\ fnIn \in [id : SeqsUpTo(FenceAlphabet, MaxFenceLen),
                 alias : SeqsUpTo(FenceAlphabet, MaxFenceLen)]
    /\ fnOut = <<>>

ApplyPreserveUnderscoreDelim ==
    /\ fnPc = "in"
    /\ fnOut' = preserve_underscore_delim(fnIn.id, fnIn.alias)
    /\ fnPc' = "out"
    /\ UNCHANGED <<fnIn, resolverVars>>

SpecFence == InitFence /\ [][ApplyPreserveUnderscoreDelim]_vars

(***************************************************************************)
(* parse_address.  An Address is AddrBytes bytes (20 in the program); the  *)
(* model decodes shorter addresses by the same loop.                       *)
(***************************************************************************)
AddrBytes == 1
AddrSlack == 2
MaxAddrLen == 2 + 2 * AddrBytes + AddrSlack
AddrAlphabet == {"0", "a", "A", "x", " "}

\* str::starts_with
StartsWith(s, prefix) ==
    Len(s) >= Len(prefix) /\ SubSeq(s, 1, Len(prefix)) = prefix

\* &address_str[2..]
SliceFrom2(s) == SubSeq(s, 3, Len(s))

HexValue(c) ==
    CASE c = "0" -> 0
      [] c = "a" -> 10
      [] c = "A" -> 10
IsHexDigit(c) == c \in {"0", "a", "A"}
IsHexWhitespace(c) == c = " "

\* One next() of the hex decoder's iterator over the rest of the input:
\* the byte of the next two hex digits, white space between them skipped;
\* an error at any other character or at an odd digit at the end; the end.
RECURSIVE HexNext(_, _, _)
HexNext(s, modulus, buf) ==
    IF s = <<>>
    THEN IF modulus # 0
         THEN [kind |-> "InvalidHexLength", byte |-> 0, rest |-> <<>>]
         ELSE [kind |-> "end", byte |-> 0, rest |-> <<>>]
    ELSE LET c == Head(s) IN
         IF IsHexDigit(c)
         THEN LET b == (buf * 16 + HexValue(c)) % 256 IN
              IF modulus + 1 = 2
              THEN [kind |-> "byte", byte |-> b, rest |-> Tail(s)]
              ELSE HexNext(Tail(s), modulus + 1, b)
         ELSE IF IsHexWhitespace(c)
              THEN HexNext(Tail(s), modulus, buf)
              ELSE [kind |-> "InvalidHexCharacter", byte |-> 0,
                    rest |-> Tail(s)]

Failed(e) == [ok |-> FALSE, val |-> e]

\* The loop of <Address as FromStr>::from_str: one byte of the result per
\* iterator item, an error if the items end early or one is an error, and an
\* error if an item is left once the result is full.
RECURSIVE FillBytes(_, _, _)
FillBytes(s, n, result) ==
    LET nx == HexNext(s, 0, 0) IN
    IF n = 0
    THEN IF nx.kind = "end" THEN Returned(result)
         ELSE Failed("InvalidHexLength")
    ELSE IF nx.kind = "end" THEN Failed("InvalidHexLength")
         ELSE IF nx.kind = "byte"
              THEN FillBytes(nx.rest, n - 1, result \o <<nx.byte>>)
              ELSE Failed(nx.kind)

\* address_str[2..].parse(): the Address type's FromStr.  Whether it drops a
\* "0x" of its own before decoding depends on the version of the hash
\* library the build resolves.
AddressFromStr(s, strips) ==
    LET input == IF strips /\ StartsWith(s, <<"0", "x">>)
                 THEN SliceFrom2(s) ELSE s
    IN  FillBytes(input, AddrBytes, <<>>)

parse_address(address_str, strips) ==
    IF ~StartsWith(address_str, <<"0", "x">>)
    THEN Failed("MissingPrefix")
    ELSE AddressFromStr(SliceFrom2(address_str), strips)

InitAddr ==
    /\ ResolverIdle
    /\ fnPc = "in"
    /\ fnIn \in [s : SeqsUpTo(AddrAlphabet, MaxAddrLen), strips : BOOLEAN]
    /\ fnOut = Failed("none")

ApplyParseAddress ==
    /\ fnPc = "in"
    /\ fnOut' = parse_address(fnIn.s, fnIn.strips)
    /\ fnPc' = "out"
    /\ UNCHANGED <<fnIn, resolverVars>>

SpecAddr == InitAddr /\ [][ApplyParseAddress]_vars

(***************************************************************************)
(*                              The claims                                 *)
(***************************************************************************)

\* C1 as stated: once the first access to ETHERS_CRATES is over, the
\* dependency query and the cleanup step have each run exactly once, and
\* neither ever runs a second time.
C1_ExactlyOnce ==
    /\ queryCount <= 1
    /\ cleanupCount <= 1
    /\ lazy \in {"init", "poisoned"} => queryCount = 1 /\ cleanupCount = 1

\* C1 amended: the query and the cleanup step never run more than once, for
\* any number of accessor calls and any interleaving; when CARGO_MANIFEST_DIR
\* is set they have each run exactly once when the first access is over (the
\* cell is initialised, and never poisoned); when it is not set the first
\* access panics before the query and neither step ever runs.
C1_AtMostOnce ==
    /\ queryCount <= 1
    /\ cleanupCount <= 1
    /\ lazy = "init" => queryCount = 1 /\ cleanupCount = 1
    /\ lazy = "uninit" => queryCount = 0 /\ cleanupCount = 0
    /\ envSet => lazy # "poisoned"
    /\ ~envSet => queryCount = 0 /\ cleanupCount = 0 /\ lazy # "init"
    /\ \A t \in Threads : IsSome(out[t]) => queryCount = 1 /\ cleanupCount = 1

\* Every thread has made all its calls and got a path, after one query and
\* one cleanup.
C1_Witness ==
    /\ \A t \in Threads : pc[t] = "idle" /\ budget[t] = 0 /\ IsSome(out[t])
    /\ queryCount = 1
    /\ cleanupCount = 1

\* C5: every accessor call reads the same, set triple; a caller that arrives
\* while the initialiser runs does not go on before the cell is set; and the
\* cell, once set, is never written again.
C5_StatePart ==
    /\ cellWrites <= 1
    /\ IsSome(cell) <=> cellWrites = 1
    /\ None \notin obs
    /\ Cardinality(obs) <= 1
    /\ \A t \in Threads : waited[t] /\ pc[t] = "idle" => IsSome(out[t])
    /\ \A t \in Threads :
          IsSome(out[t]) =>
             /\ IsSome(cell)
             /\ obs = {cell}
             /\ \E a \in Accessors : out[t] = Some(Unwrap(cell)[a + 1])
\* C5: C5_StatePart holds in every state, and no step changes a set cell.
C5_IdenticalTriple ==
    /\ []C5_StatePart
    /\ [][IsSome(cell) => cell' = cell]_vars

\* Every thread holds a path of the same triple, and thread 2 has waited for
\* the initialiser that another thread was running.
C5_Witness ==
    /\ \A t \in Threads : IsSome(out[t]) /\ budget[t] = 0 /\ pc[t] = "idle"
    /\ waited[2]
    /\ obs = {Some(UmbrellaCrates)}
    /\ out[1] = Some(<<"ethers", "core">>)
    /\ out[2] = Some(<<"ethers", "providers">>)

\* C2 as stated: if no Cargo.lock was there before resolve(), none is there
\* once resolve() has returned.
C2_NoLockAfter ==
    (lockBefore = "absent" /\ lazy = "init") => lockFile = "absent"

\* C2 amended: if no Cargo.lock was there before resolve(), then once
\* resolve() has returned it has called remove_file once, and none is there
\* unless the query created one and that removal failed.
C2_NoLockAfterUnlessRemoveFailed ==
    (lockBefore = "absent" /\ lazy = "init") =>
        /\ removeCalls = 1
        /\ lockFile # "absent" =>
              removeFailed /\ created /\ lockFile = "generated"
        /\ ~removeFailed => lockFile = "absent"

\* The query created the lock file and resolve() removed it.
C2_Witness ==
    /\ lockBefore = "absent"
    /\ lazy = "init"
    /\ created
    /\ ~removeFailed
    /\ lockFile = "absent"

C4_NeverFails ==
    /\ \A t \in Threads : pc[t] # "panicked"
    /\ (lazy = "init" /\ ~project.ok) => cell = Some(StandaloneCrates)

\* C4 amended: when CARGO_MANIFEST_DIR is set resolve() never panics,
\* whatever the query and remove_file do, it runs to its return, and after a
\* failed query the value is the standalone triple; the only error it
\* surfaces is the panic on an unset CARGO_MANIFEST_DIR, before the query.
C4_FailsOnlyWithoutEnv ==
    /\ envSet => \A t \in Threads : pc[t] # "panicked"
    /\ (\E t \in Threads : pc[t] = "panicked") =>
          ~envSet /\ queryCount = 0 /\ removeCalls = 0
    /\ (lazy = "init" /\ ~project.ok) => cell = Some(StandaloneCrates)
    /\ \A t \in Threads :
          (pc[t] \in {"cleanup", "ret"} /\ ~project.ok) =>
              res = StandaloneCrates
    /\ (envSet /\ ~ENABLED NextResolver) =>
          \A t \in Threads : pc[t] = "idle" /\ budget[t] = 0
    /\ (envSet /\ removeFailed /\ lazy = "running") => ENABLED NextResolver

\* The query failed, the removal of the lock file it left failed, and the
\* caller got the standalone path.
C4_Witness ==
    /\ lazy = "init"
    /\ ~project.ok
    /\ removeFailed
    /\ out[1] = Some(<<"ethers_core">>)

\* C9: resolve() returns the umbrella triple exactly when the query
\* succeeded, there is a root package and one of its dependencies is of kind
\* normal and named "ethers"; otherwise the standalone triple; and every
\* path an accessor returned is a path of the triple resolve() returned.
HasNormalEthers(p) ==
    \E i \in DOMAIN p.deps : p.deps[i] = [name |-> "ethers", kind |-> "normal"]
C9_UmbrellaIff ==
    lazy = "init" =>
        /\ cell \in {Some(UmbrellaCrates), Some(StandaloneCrates)}
        /\ cell = Some(UmbrellaCrates) <=>
              (project.ok /\ project.root /\ HasNormalEthers(project))
        /\ \A t \in Threads :
              IsSome(out[t]) =>
                  \E a \in Accessors : out[t] = Some(Unwrap(cell)[a + 1])

\* The umbrella dependency is found behind a dev dependency of the same name.
C9_Witness ==
    /\ lazy = "init"
    /\ project.deps = <<[name |-> "ethers", kind |-> "dev"],
                        [name |-> "ethers", kind |-> "normal"]>>
    /\ cell = Some(UmbrellaCrates)
    /\ out[1] = Some(<<"ethers", "providers">>)

\* C6: expand_input_name returns a token for every name and index; it never
\* panics.
C6_Total == fnPc = "out" => fnOut.ok

\* C8: the token expand_input_name returns is "p" and the index for an empty
\* name, else the snake-case form of the name, with one underscore appended
\* exactly when that form is a reserved word; the token is a valid
\* identifier and no reserved word.
RefIdent(name, index) ==
    IF name = <<>> THEN <<"p">> \o ToDecimal(index)
    ELSE IF ToSnakeCase(name) \in Keywords THEN ToSnakeCase(name) \o <<"_">>
         ELSE ToSnakeCase(name)
C8_MatchesReference ==
    fnPc = "out" =>
        /\ fnOut.ok
        /\ fnOut.val = RefIdent(fnIn.name, fnIn.index)
        /\ IdentOk(fnOut.val)
        /\ fnOut.val # <<"_">>
        /\ fnOut.val \notin Keywords

\* C10: preserve_underscore_delim(ident, alias) is the leading run of
\* underscores of alias, then ident, then the trailing run of underscores of
\* alias.
Underscores(k) == [i \in 1..k |-> "_"]
LeadingRun(a) ==
    CHOOSE k \in 0..Len(a) :
        /\ \A i \in 1..k : a[i] = "_"
        /\ k < Len(a) => a[k + 1] # "_"
TrailingRun(a) ==
    CHOOSE k \in 0..Len(a) :
        /\ \A i \in (Len(a) - k + 1)..Len(a) : a[i] = "_"
        /\ k < Len(a) => a[Len(a) - k] # "_"
C10_FencePreserved ==
    fnPc = "out" =>
        fnOut = Underscores(LeadingRun(fnIn.alias)) \o fnIn.id
                    \o Underscores(TrailingRun(fnIn.alias))

\* An alias fenced on the left only.
C10_Witness ==
    /\ fnPc = "out"
    /\ fnIn.alias = <<"_", "_", "a">>
    /\ fnIn.id = <<"a", "S">>
    /\ fnOut = <<"_", "_", "a", "S">>

\* C7: parse_address fails with the missing-prefix error on a string that
\* does not start with "0x", fails with a hex error on any other string that
\* is not "0x" and exactly two hex digits a byte, and otherwise returns the
\* bytes the digits spell, in order.
IsExactHex(r) ==
    Len(r) = 2 * AddrBytes /\ \A i \in 1..Len(r) : IsHexDigit(r[i])
SpelledBytes(r) ==
    [i \in 1..AddrBytes |-> 16 * HexValue(r[2 * i - 1]) + HexValue(r[2 * i])]
C7_ThreeOutcomes ==
    fnPc = "out" =>
        IF ~StartsWith(fnIn.s, <<"0", "x">>)
        THEN fnOut = Failed("MissingPrefix")
        ELSE IF IsExactHex(SliceFrom2(fnIn.s))
             THEN fnOut = Returned(SpelledBytes(SliceFrom2(fnIn.s)))
             ELSE /\ ~fnOut.ok
                  /\ fnOut.val \in {"InvalidHexCharacter", "InvalidHexLength"}
====
